---- MODULE Spec2Model ----
(***************************************************************************)
(* Model of the request pipeline of the Datera Go SDK connection           *)
(* (package dsdk, type ApiConnection): the error classifier                *)
(* translateErrors, the single attempt do, the retry loop, the             *)
(* authenticated entry point doWithAuth, Login / Logout on the session     *)
(* token guarded by the connection's RWMutex, and the list paginator       *)
(* GetList.                                                                *)
(*                                                                         *)
(* Every caller (goroutine) owns a call stack of frames.  A `return f(..)` *)
(* of the source is a tail call: the callee's frame takes the place of the *)
(* caller's frame, and its result goes to the caller's caller unchanged.   *)
(* The server is nondeterministic: every request gets any response of the  *)
(* set the configuration allows.                                           *)
(***************************************************************************)
EXTENDS Integers, Sequences, FiniteSets, TLC

VARIABLES
    apikey,     \* c.apikey: the session token, 0 is the empty string
    writer,     \* holder of the exclusive side of c.m, 0 when it is free
    stack,      \* per caller: the call stack, innermost frame last
    ret,        \* per caller: the pair (apiresp, err) the last callee returned
    op,         \* per caller: the public operation being (or last) executed
    hdr,        \* per caller: ro.Headers (tenant, Auth-Token)
    login,      \* per caller: the ApiLogin holder of Login (its Key)
    rs,         \* per caller: the result holder of the verb (ApiOuter / ApiListOuter)
    lst,        \* per caller: GetList's locals (ro.Params, data, offset) and its fetches
    g,          \* per caller: observations of the current operation (history)
    cfg,        \* the scenario: the callers that run and the server's responses
    te,         \* the error classifier applied to one input (input, output)
    qp,         \* the query-parameter conversions applied to one value
    lg          \* the log records of one attempt of do and what it was called with

vars == <<apikey, writer, stack, ret, op, hdr, login, rs, lst, g, cfg, te, qp, lg>>

-----------------------------------------------------------------------------
(* Bounds of the model *)

NumCallers == 2          \* callers sharing the connection
NumKeys == 2             \* distinct session keys the server hands out
MaxCycles == 2           \* the re-authentication counter saturates here
ReqDelay == 100          \* seconds a slow request (or a wait for the lock) may take
MaxItems == 3            \* longest list the server holds
MaxPage == 2             \* largest page the server serves
MaxFetches == 4          \* the count of page fetches saturates here
ShortTimeout == 6        \* a RetryTimeout set low
ShortDelay == 2          \* seconds a slow request takes under the short timeout
MaxNumber == 11          \* largest limit and offset (in absolute value) converted

(* Program constants *)

RetryTimeout == 300
InvalidRequest == 400
PermissionDenied == 401
Retry503 == 503
ConnectionError == 9998
RetryRequestAfterLogin == 9999

Callers == 1..NumCallers
Keys == 1..NumKeys

-----------------------------------------------------------------------------
(* Errors.  An error is named by its identity; ErrorText is err.Error(), a   *)
(* sequence of the phrases the message is made of.                           *)

NoErr == "nil"
RawRefused == "dial tcp: connect: connection refused"
RawDeadline == "context deadline exceeded"
ErrRetryTimeout == "ErrRetryTimeout"
ErrDecode == "json: cannot unmarshal"

ErrorText(e) ==
    CASE e = RawRefused -> <<"dial tcp", "connect: connection refused">>
      [] e = "dial tcp 10.0.0.1:7717: connect: connection refused" ->
            <<"dial tcp 10.0.0.1:7717", "connect: connection refused">>
      [] e = "read tcp: connection reset by peer" ->
            <<"read tcp", "connection reset by peer">>
      [] e = RawDeadline -> <<"context deadline exceeded">>
      [] e = ErrRetryTimeout ->
            <<"timeout reached before request completed successfully during retries">>
      [] e = "InvalidRequest" -> <<"InvalidRequest">>
      [] e = "PermissionDenied" -> <<"PermissionDenied">>
      [] e = "Retry503" -> <<"Retry503">>
      [] e = "ConnectionError" -> <<"ConnectionError">>
      [] OTHER -> <<e>>

(* strings.Contains(err.Error(), "connect: connection refused") *)
ContainsRefused(e) ==
    \E i \in DOMAIN ErrorText(e) : ErrorText(e)[i] = "connect: connection refused"

(* badStatus[code]: the error of a status code, nil for a code not in the map *)
badStatus(code) ==
    CASE code = InvalidRequest -> "InvalidRequest"
      [] code = PermissionDenied -> "PermissionDenied"
      [] code = Retry503 -> "Retry503"
      [] code = ConnectionError -> "ConnectionError"
      [] code = RetryRequestAfterLogin -> "RetryRequestAfterLogin"
      [] OTHER -> NoErr

(* An *ApiErrorResponse: nil, or a value with its Http field *)
NilApi == [nil |-> TRUE, http |-> 0]
ApiErr(h) == [nil |-> FALSE, http |-> h]

Pair(a, e) == [api |-> a, err |-> e]
Success == Pair(NilApi, NoErr)

(* greq.Response.Ok *)
RespOk(status) == status >= 200 /\ status < 300

(* a classifier that keeps the body's "http" as it is *)
translateErrorsBodyHttp(r) ==
    IF r.terr # NoErr
    THEN IF ContainsRefused(r.terr)
         THEN Pair(NilApi, badStatus(ConnectionError))
         ELSE Pair(NilApi, r.terr)
    ELSE IF ~RespOk(r.status)
         THEN Pair(ApiErr(r.http), badStatus(r.status))
         ELSE Success

(* translateErrors(ctxt, resp, err): r.terr is the transport error, r.status *)
(* the status code, r.http the "http" field of the body (0 when omitted).    *)
translateErrors(r) ==
    IF r.terr # NoErr
    THEN IF ContainsRefused(r.terr)
         THEN Pair(NilApi, badStatus(ConnectionError))
         ELSE Pair(NilApi, r.terr)
    ELSE IF ~RespOk(r.status)
         THEN Pair(ApiErr(IF r.http = 0 THEN r.status ELSE r.http), badStatus(r.status))
         ELSE Success

-----------------------------------------------------------------------------
(* Responses of the server *)

Resp(terr, status, http, key, bad, items, tcnt) ==
    [terr |-> terr, status |-> status, http |-> http, key |-> key, bad |-> bad,
     items |-> items, tcnt |-> tcnt]

NoResp == Resp(NoErr, 0, 0, 0, FALSE, <<>>, -1)

FailStatuses == {400, 401, 500, 503}

(* the "http" field of an error body: omitted, the status, or another value *)
HttpFields(status) ==
    {0, status} \cup (IF status = 500 THEN {503} ELSE {}) \cup (IF status = 401 THEN {400} ELSE {})
        \cup (IF status = 503 THEN {500} ELSE {})

(* failures any request can meet: a transport error, an error status, a body *)
(* that does not decode                                                      *)
FailResponses ==
    {Resp(e, 0, 0, 0, FALSE, <<>>, -1) : e \in {RawRefused, RawDeadline}}
    \cup UNION {{Resp(NoErr, s, h, 0, FALSE, <<>>, -1) : h \in HttpFields(s)} : s \in FailStatuses}
    \cup {Resp(NoErr, 200, 0, 0, TRUE, <<>>, -1)}

(* answers to PUT login: a session key *)
LoginOk(keys) == {Resp(NoErr, 200, 0, k, FALSE, <<>>, -1) : k \in keys}

(* answers to PUT login whose body has the key and a field of another type   *)
(* than ApiLogin's: resp.JSON decodes the fields it can (encoding/json goes  *)
(* on after a type error) and returns the error                              *)
LoginPartial(keys) == {Resp(NoErr, 200, 0, k, TRUE, <<>>, -1) : k \in keys}

(* answers to a single-resource request *)
ResourceOk == {Resp(NoErr, 200, 0, 0, FALSE, <<>>, -1)}

-----------------------------------------------------------------------------
(* Frames *)

(* fn, pc: the function and the place in it.  login: the url is "login".     *)
(* retry, sensitive, allowLogin: the parameters of do / retry.  backoff,      *)
(* apiresp: the locals of retry (apiresp is the one declared before the loop, *)
(* inner the one the loop body declares); elapsed is time.Now().Unix()-t1,    *)
(* kept up to the timeout, beyond which the loop test no longer tells values  *)
(* apart.  eresp: do's eresp.  depth: how many replays of do led to this      *)
(* frame.  iter: attempts the loop has made.                                  *)
Frame(fn, pc, isLogin, retry, sensitive, allow) ==
    [fn |-> fn, pc |-> pc, login |-> isLogin, retry |-> retry,
     sensitive |-> sensitive, allowLogin |-> allow,
     backoff |-> 0, elapsed |-> 0, apiresp |-> NilApi, inner |-> NilApi,
     eresp |-> NilApi, depth |-> 0, iter |-> 0]

canRetry == TRUE
isSensitive == TRUE
allowLogin == TRUE

Top(t) == stack[t][Len(stack[t])]
HasTop(t, fn, pc) == stack[t] # <<>> /\ Top(t).fn = fn /\ Top(t).pc = pc
Pop(s) == SubSeq(s, 1, Len(s) - 1)
Replace(s, f) == [s EXCEPT ![Len(s)] = f]
SetPc(s, pc) == [s EXCEPT ![Len(s)].pc = pc]

Min(a, b) == IF a < b THEN a ELSE b

(* d seconds pass for the caller that owns stack s: every Retry Loop it is in *)
(* sees its elapsed time grow                                                 *)
Pass(s, d) ==
    [i \in DOMAIN s |->
        IF s[i].fn = "retry" THEN [s[i] EXCEPT !.elapsed = Min(@ + d, cfg.timeout)] ELSE s[i]]

Busy(t) == stack[t] # <<>>
Done(t) == stack[t] = <<>> /\ op[t] # "none"

-----------------------------------------------------------------------------
(* Query parameters.  A string is the sequence of its characters; a map is a *)
(* function from its keys to strings, and reading a missing key gives "".   *)

Digits == <<"0", "1", "2", "3", "4", "5", "6", "7", "8", "9">>
DigitVal(c) == CHOOSE d \in 0..9 : Digits[d + 1] = c
IsDigit(c) == \E d \in 0..9 : Digits[d + 1] = c

RECURSIVE FormatNat(_)
FormatNat(n) == IF n < 10 THEN <<Digits[n + 1]>> ELSE Append(FormatNat(n \div 10), Digits[(n % 10) + 1])

(* a formatting that drops the sign *)
FormatIntUnsigned(n) == IF n < 0 THEN FormatNat(0 - n) ELSE FormatNat(n)

(* strconv.FormatInt(int64(n), 10) *)
FormatInt(n) == IF n < 0 THEN <<"-">> \o FormatNat(0 - n) ELSE FormatNat(n)

RECURSIVE ParseDigits(_, _, _)
ParseDigits(str, base, acc) ==
    IF str = <<>> THEN [ok |-> TRUE, val |-> acc]
    ELSE IF IsDigit(Head(str)) /\ DigitVal(Head(str)) < base
         THEN ParseDigits(Tail(str), base, acc * base + DigitVal(Head(str)))
         ELSE [ok |-> FALSE, val |-> 0]

(* strconv.ParseInt(str, 0, 0) on a string of an optional sign and digits:   *)
(* base 0 reads a leading "0" as the octal prefix                            *)
ParseInt(str) ==
    LET neg == str # <<>> /\ Head(str) = "-"
        body == IF str # <<>> /\ Head(str) \in {"-", "+"} THEN Tail(str) ELSE str
        octal == Len(body) > 1 /\ Head(body) = "0"
        p == IF body = <<>> THEN [ok |-> FALSE, val |-> 0]
             ELSE IF octal THEN ParseDigits(Tail(body), 8, 0)
             ELSE ParseDigits(body, 10, 0)
    IN  [ok |-> p.ok, val |-> IF neg THEN 0 - p.val ELSE p.val]

EmptyMap == <<>>
MapGet(m, k) == IF k \in DOMAIN m THEN m[k] ELSE <<>>
MapPut(m, k, v) == [x \in DOMAIN m \cup {k} |-> IF x = k THEN v ELSE m[x]]

(* ListParams.ToMap: a key for a non-empty string, a non-zero number *)
ListParamsToMap(lp) ==
    LET m1 == IF lp.Filter # <<>> THEN MapPut(EmptyMap, "filter", lp.Filter) ELSE EmptyMap
        m2 == IF lp.Limit # 0 THEN MapPut(m1, "limit", FormatInt(lp.Limit)) ELSE m1
        m3 == IF lp.Sort # <<>> THEN MapPut(m2, "sort", lp.Sort) ELSE m2
    IN  IF lp.Offset # 0 THEN MapPut(m3, "offset", FormatInt(lp.Offset)) ELSE m3

(* ListParamsFromMap; it panics on a number that does not parse, and the     *)
(* model gives such a map no value (callers pass numbers that parse)         *)
ListParamsFromMap(m) ==
    [Filter |-> MapGet(m, "filter"),
     Sort |-> MapGet(m, "sort"),
     Offset |-> IF MapGet(m, "offset") # <<>> THEN ParseInt(MapGet(m, "offset")).val ELSE 0,
     Limit |-> IF MapGet(m, "limit") # <<>> THEN ParseInt(MapGet(m, "limit")).val ELSE 0]

(* ListRangeParams.ToMap: the keys of ListParams, and since, from, to *)
ListRangeParamsToMap(lp) ==
    LET m4 == ListParamsToMap(lp)
        m5 == IF lp.Since # <<>> THEN MapPut(m4, "since", lp.Since) ELSE m4
        m6 == IF lp.From # <<>> THEN MapPut(m5, "from", lp.From) ELSE m5
    IN  IF lp.To # <<>> THEN MapPut(m6, "to", lp.To) ELSE m6

(* ListRangeParamsFromMap *)
ListRangeParamsFromMap(m) ==
    [Filter |-> MapGet(m, "filter"),
     Sort |-> MapGet(m, "sort"),
     Since |-> MapGet(m, "since"),
     From |-> MapGet(m, "from"),
     To |-> MapGet(m, "to"),
     Offset |-> IF MapGet(m, "offset") # <<>> THEN ParseInt(MapGet(m, "offset")).val ELSE 0,
     Limit |-> IF MapGet(m, "limit") # <<>> THEN ParseInt(MapGet(m, "limit")).val ELSE 0]

(* the keys of the two maps *)
ListKeys == {"filter", "limit", "sort", "offset"}
RangeKeys == ListKeys \cup {"since", "from", "to"}

(* map m with every key of keys it lacks added with the empty string *)
WithEmptyKeys(m, keys) == [k \in DOMAIN m \cup keys |-> MapGet(m, k)]

(* the zero value of ListParams; no conversion made yet *)
ZeroListParams == [Filter |-> <<>>, Sort |-> <<>>, Offset |-> 0, Limit |-> 0]
NoConversion ==
    [kind |-> "none", lp |-> ZeroListParams, m |-> EmptyMap,
     back |-> ZeroListParams, backE |-> ZeroListParams]

-----------------------------------------------------------------------------
(* Observations of the current operation.  They record what happened and     *)
(* decide nothing.                                                           *)
(*   all503, natt, lastGap, since: while every resource attempt so far was   *)
(*     answered 503 (status and API Error), the number of attempts, the      *)
(*     seconds slept between the last two and since the last one             *)
(*   last, quiet: the response to the latest resource attempt, and whether   *)
(*     no request and no sleep followed it                                   *)
(*   followedA, followedO: the first terminal response (in the amended and   *)
(*     in the original sense of C5) that a request or a sleep followed       *)
(*   lastApi: the API Error of the last attempt of a Retry Loop that timed   *)
(*     out; nlogin: login requests sent (saturating at 2)                    *)
(*   found, left: the token Login found when it took the lock, and the token *)
(*     it left when it returned                                              *)
(*   peer: the token the Login of another caller left while this caller was  *)
(*     waiting for the lock in Login (-1: none did, or a Logout came after)  *)
(*   lstatus, lkey: the status code and the session key of the answer to the *)
(*     latest login request                                                  *)
(*   dwaTok, sent, lret: of the current call of doWithAuth, whether the      *)
(*     token was set when it started (1, 0; -1 before any call), whether it  *)
(*     has sent a resource request, and what the latest Login in it returned *)

(* C5, as stated: an API Error of a response whose HTTP status is neither    *)
(* 503 nor 401, or a transport error that is not connection refused          *)
TerminalO(r) ==
    LET out == translateErrors(r)
    IN  \/ ~out.api.nil /\ r.status \notin {Retry503, PermissionDenied}
        \/ r.terr # NoErr /\ ~ContainsRefused(r.terr)

(* C5, amended: the status code is neither 503 nor 401 and the API Error's   *)
(* Http is not 503, or a transport error that is not connection refused      *)
TerminalA(r) ==
    LET out == translateErrors(r)
    IN  \/ ~out.api.nil /\ r.status \notin {Retry503, PermissionDenied}
            /\ out.api.http # Retry503
        \/ r.terr # NoErr /\ ~ContainsRefused(r.terr)

Is503(r) == r.terr = NoErr /\ r.status = Retry503 /\ translateErrors(r).api.http = Retry503

(* what the observations keep of a response *)
Seen(r) == [terr |-> r.terr, status |-> r.status, http |-> r.http]
NoneSeen == [terr |-> NoErr, status |-> 0, http |-> 0]

(* no Login has returned / the pair the latest Login returned *)
NoLogin == [called |-> FALSE, p |-> Success]
LoginReturned(p) == [called |-> TRUE, p |-> p]

GInit ==
    [all503 |-> TRUE, natt |-> 0, lastGap |-> 0, since |-> 0,
     last |-> NoneSeen, quiet |-> TRUE, followedA |-> NoneSeen, followedO |-> NoneSeen,
     lastApi |-> NilApi, nlogin |-> 0, found |-> 0, left |-> 0, peer |-> -1,
     lstatus |-> 0, lkey |-> 0, dwaTok |-> -1, sent |-> FALSE, lret |-> NoLogin]

(* the observations are kept in the scenarios that say so *)
Obs(o) == IF cfg.observe THEN o ELSE g

(* caller u has released the lock leaving the token tok (-1 for a Logout):   *)
(* what the callers that wait in Login have seen                             *)
PeersSee(u, tok) ==
    [t \in Callers |->
        IF t # u /\ stack[t] # <<>> /\ stack[t][Len(stack[t])].fn = "Login"
                /\ stack[t][Len(stack[t])].pc = "lock"
        THEN [g[t] EXCEPT !.peer = tok]
        ELSE g[t]]

(* something (a request, a sleep) follows the latest resource attempt *)
GFollow(o) ==
    [o EXCEPT !.quiet = FALSE,
              !.followedA = IF @ = NoneSeen /\ o.quiet /\ TerminalA(o.last) THEN o.last ELSE @,
              !.followedO = IF @ = NoneSeen /\ o.quiet /\ TerminalO(o.last) THEN o.last ELSE @]

GRequest(o, r, isLogin) ==
    IF isLogin
    THEN [GFollow(o) EXCEPT !.nlogin = IF @ < 2 THEN @ + 1 ELSE @,
                            !.lstatus = r.status, !.lkey = r.key]
    ELSE [GFollow(o) EXCEPT
            !.sent = TRUE,
            !.last = IF TerminalA(r) \/ TerminalO(r) THEN Seen(r) ELSE NoneSeen,
            !.quiet = TRUE,
            !.all503 = o.all503 /\ Is503(r),
            !.natt = IF o.all503 THEN @ + 1 ELSE 0,
            !.lastGap = IF o.all503 THEN o.since ELSE 0,
            !.since = 0]

GSleep(o, secs) ==
    [GFollow(o) EXCEPT !.since = IF o.all503 THEN @ + secs ELSE 0]

-----------------------------------------------------------------------------
(* The public operations *)

Verbs == {"Get", "Put", "Post", "Delete"}

NoHdr == [tenant |-> FALSE, token |-> 0]

(* when the public operation of caller t returns, the request options it    *)
(* built (ro.Headers) are gone                                               *)
Leaves(t) == hdr' = [hdr EXCEPT ![t] = IF stack'[t] = <<>> THEN NoHdr ELSE @]
(* ro.Params: a nil map, or a map *)
NilParams == [nil |-> TRUE, m |-> EmptyMap]
Params(m) == [nil |-> FALSE, m |-> m]

(* GetList's ro.Params and its locals data, offset, ldata, tcnt (the one     *)
(* declared before the loop) and the pair of its first call; N, P: the list  *)
(* the server holds for this url and the size of its pages; fetches: calls   *)
(* of doWithAuth made (saturating); faithful: every answer so far was the page asked for, *)
(* with total_count = N; got: the items of the pages decoded so far;         *)
(* contFailed: a continuation page failed; asked: the ro.Params the caller   *)
(* passed                                                                    *)
NoList ==
    [asked |-> NilParams, params |-> NilParams, data |-> <<>>, offset |-> 0, ldata |-> 0, tcnt |-> 0,
     first |-> Success, N |-> 0, P |-> 0, fetches |-> 0,
     faithful |-> TRUE, got |-> <<>>, contFailed |-> FALSE]
NoRs == [Data |-> <<>>, meta |-> FALSE, tcnt |-> 0]

Begin(t, name, stk, l) ==
    /\ t \in cfg.callers
    /\ ~Busy(t)
    /\ name \in cfg.ops
    /\ op' = [op EXCEPT ![t] = name]
    /\ stack' = [stack EXCEPT ![t] = stk]
    /\ hdr' = [hdr EXCEPT ![t] = NoHdr]
    /\ g' = Obs([g EXCEPT ![t] = GInit])
    /\ ret' = [ret EXCEPT ![t] = Success]
    /\ rs' = [rs EXCEPT ![t] = NoRs]
    /\ lst' = [lst EXCEPT ![t] = l]

(* Get, Put, Post, Delete: rs := &ApiOuter{}; c.doWithAuth(...) *)
CallVerb(t) ==
    /\ \E v \in Verbs : Begin(t, v, <<Frame("doWithAuth", "start", FALSE, FALSE, FALSE, FALSE)>>, NoList)
    /\ UNCHANGED <<apikey, writer, login, cfg, te, qp, lg>>

(* a caller calls Login itself *)
CallLogin(t) ==
    /\ Begin(t, "Login", <<Frame("Login", "lock", TRUE, FALSE, FALSE, FALSE)>>, NoList)
    /\ UNCHANGED <<apikey, writer, login, cfg, te, qp, lg>>

(* Logout: c.m.Lock(); c.apikey = ""; c.m.Unlock() *)
Logout(t) ==
    /\ writer = 0
    /\ apikey' = 0

CallLogout(t) ==
    /\ t \in cfg.callers
    /\ ~Busy(t)
    /\ "Logout" \in cfg.ops
    /\ Logout(t)
    /\ op' = [op EXCEPT ![t] = "Logout"]
    /\ g' = Obs([PeersSee(t, -1) EXCEPT ![t] = GInit])
    /\ ret' = [ret EXCEPT ![t] = Success]
    /\ UNCHANGED <<writer, stack, hdr, login, rs, lst, cfg, te, qp, lg>>

-----------------------------------------------------------------------------
(* doWithAuth *)

(* hasLoggedIn: c.m.RLock(); return c.apikey != "" *)
hasLoggedIn == apikey # 0

(* if !c.hasLoggedIn() { c.Login(ctxt) ... } *)
DoWithAuthStart(t) ==
    /\ HasTop(t, "doWithAuth", "start")
    /\ writer = 0
    /\ stack' = [stack EXCEPT ![t] =
            IF hasLoggedIn
            THEN SetPc(@, "headers")
            ELSE Append(SetPc(@, "afterLogin"),
                        Frame("Login", "lock", TRUE, FALSE, FALSE, FALSE))]
    /\ g' = Obs([g EXCEPT ![t].dwaTok = IF apikey # 0 THEN 1 ELSE 0,
                          ![t].sent = FALSE, ![t].lret = NoLogin])
    /\ UNCHANGED <<apikey, writer, ret, op, hdr, login, rs, lst, cfg, te, qp, lg>>

(* a test that looks at the API Error only *)
FailedApiOnly(p) == ~p.api.nil

(* if apierr != nil || err != nil { return apierr, err } *)
Failed(p) == ~p.api.nil \/ p.err # NoErr

DoWithAuthAfterLogin(t) ==
    /\ HasTop(t, "doWithAuth", "afterLogin")
    /\ stack' = [stack EXCEPT ![t] =
            IF Failed(ret[t]) THEN Pop(@) ELSE SetPc(@, "headers")]
    /\ UNCHANGED <<apikey, writer, ret, op, login, rs, lst, g, cfg, te, qp, lg>>
    /\ Leaves(t)

(* ro.Headers = {tenant, Auth-Token: c.apikey} under RLock;                  *)
(* return c.do(ctxt, method, url, ro, rs, canRetry, !isSensitive, allowLogin) *)
DoWithAuthHeaders(t) ==
    /\ HasTop(t, "doWithAuth", "headers")
    /\ writer = 0
    /\ hdr' = [hdr EXCEPT ![t] = [tenant |-> TRUE, token |-> apikey]]
    /\ stack' = [stack EXCEPT ![t] =
            Replace(@, Frame("do", "request", FALSE, canRetry, ~isSensitive, allowLogin))]
    /\ UNCHANGED <<apikey, writer, ret, op, login, rs, lst, g, cfg, te, qp, lg>>

-----------------------------------------------------------------------------
(* do: one attempt *)

(* the responses the server may give to the request of frame f *)
ServerList(n) == [i \in 1..n |-> i]

(* the offset the request asks for *)
ReqOffset(t) ==
    IF MapGet(lst[t].params.m, "offset") # <<>>
    THEN ParseInt(MapGet(lst[t].params.m, "offset")).val
    ELSE 0

(* the items the server has from the offset on, up to a page *)
Avail(t) ==
    IF ReqOffset(t) < lst[t].N THEN Min(lst[t].P, lst[t].N - ReqOffset(t)) ELSE 0

FaithfulPage(t) ==
    Resp(NoErr, 200, 0, 0, FALSE,
         SubSeq(ServerList(lst[t].N), ReqOffset(t) + 1, ReqOffset(t) + Avail(t)), lst[t].N)

(* answers to a list request: the page asked for, or, from a server that is  *)
(* not faithful, fewer items, another total_count or no metadata             *)
ListPages(t) ==
    IF cfg.pages = "faithful" THEN {FaithfulPage(t)}
    ELSE {Resp(NoErr, 200, 0, 0, FALSE,
               SubSeq(ServerList(lst[t].N), ReqOffset(t) + 1, ReqOffset(t) + k), c) :
            k \in 0..Avail(t), c \in {-1, 0, lst[t].N, MaxItems}}

(* the failures a scenario names *)
Plain(statuses) == {r \in FailResponses : r.http = 0 /\ ~r.bad /\ r.status \in statuses}

Failures(name) ==
    CASE name = "any" -> FailResponses
      [] name = "not retried" ->
            {r \in FailResponses : r.status # Retry503 /\ r.terr # RawRefused}
      [] name = "no 401" -> {r \in FailResponses : r.status # PermissionDenied}
      [] name = "refused, 500, 503" -> {r \in Plain({0, 500, 503}) : r.terr # RawDeadline}
      [] name = "500, 503" -> Plain({500, 503})
      [] name = "401, 500" -> Plain({401, 500})
      [] name = "401" -> Plain({401})
      [] name = "only 503" ->
            {r \in FailResponses : r.status = Retry503 /\ r.http \in {0, Retry503}}
      [] OTHER -> {}

Responses(t, f) ==
    IF f.login
    THEN Failures(cfg.loginR) \cup LoginOk(cfg.keys)
            \cup (IF cfg.loginR = "any" THEN LoginPartial(cfg.keys) ELSE {})
    ELSE IF op[t] = "GetList" THEN Failures(cfg.resource) \cup ListPages(t)
    ELSE IF cfg.resource = "only 503" THEN Failures(cfg.resource)
    ELSE Failures(cfg.resource) \cup ResourceOk

(* a do that re-authenticates on every 401, whatever allowLogin says *)
DoBranchAlwaysReauth(f, r, out) ==
    IF out.err = badStatus(PermissionDenied)
    THEN "reauth"
    ELSE IF f.retry /\ (out.err = badStatus(Retry503) \/ out.err = badStatus(ConnectionError))
    THEN "retry"
    ELSE IF ~out.api.nil THEN "apierr"
    ELSE IF out.err # NoErr THEN "err"
    ELSE IF r.bad THEN "undecoded"
    ELSE "ok"

(* what do does with the classified response, in the order of its tests *)
DoBranch(f, r, out) ==
    IF out.err = badStatus(PermissionDenied)
    THEN IF f.allowLogin THEN "reauth" ELSE "denied"
    ELSE IF f.retry /\ (out.err = badStatus(Retry503) \/ out.err = badStatus(ConnectionError))
    THEN "retry"
    ELSE IF ~out.api.nil THEN "apierr"
    ELSE IF out.err # NoErr THEN "err"
    ELSE IF r.bad THEN "undecoded"
    ELSE "ok"

(* the pair do returns on a branch that returns *)
DoResult(b, out) ==
    CASE b = "denied" -> Pair(out.api, NoErr)
      [] b = "apierr" -> Pair(out.api, NoErr)
      [] b = "err" -> Pair(NilApi, out.err)
      [] b = "undecoded" -> Pair(NilApi, ErrDecode)
      [] OTHER -> Success

(* return c.retry(ctxt, method, url, ro, rs, sensitive, allowLogin):         *)
(* t1 := time.Now().Unix(); backoff := 1; var apiresp *ApiErrorResponse      *)
RetryFrame(f) ==
    [Frame("retry", "loop", f.login, FALSE, f.sensitive, f.allowLogin)
        EXCEPT !.backoff = 1, !.elapsed = 0]

(* resp.JSON(rs) into the verb's holder: data replaces Data, metadata, when  *)
(* the body has it, sets total_count                                         *)
Decode(holder, r) ==
    [Data |-> r.items,
     meta |-> holder.meta \/ r.tcnt >= 0,
     tcnt |-> IF r.tcnt >= 0 THEN r.tcnt ELSE holder.tcnt]

(* greq.DoRegularRequest, translateErrors, and the tests that follow *)
DoRequest(t) ==
    /\ HasTop(t, "do", "request")
    /\ \E r \in Responses(t, Top(t)), d \in cfg.delays :
        LET f == Top(t)
            out == translateErrors(r)
            b == DoBranch(f, r, out)
        IN  /\ g' = Obs([g EXCEPT ![t] = GRequest(@, r, f.login)])
            /\ stack' = [stack EXCEPT ![t] =
                    CASE b = "reauth" ->
                            Replace(Pass(@, d), [f EXCEPT !.pc = "check", !.eresp = out.api])
                      [] b = "retry" -> Replace(Pass(@, d), RetryFrame(f))
                      [] OTHER -> Pop(Pass(@, d))]
            /\ ret' = [ret EXCEPT ![t] =
                    IF b \in {"reauth", "retry"} THEN @ ELSE DoResult(b, out)]
            /\ login' = [login EXCEPT ![t] =
                    IF b \in {"ok", "undecoded"} /\ f.login THEN [Key |-> r.key] ELSE @]
            /\ rs' = [rs EXCEPT ![t] =
                    IF b = "ok" /\ ~f.login THEN Decode(@, r) ELSE @]
            /\ lst' = [lst EXCEPT ![t] =
                    IF op[t] = "GetList" /\ ~f.login
                    THEN [@ EXCEPT !.faithful = @ /\ r = FaithfulPage(t),
                                   !.got = IF b = "ok" THEN @ \o r.items ELSE @]
                    ELSE @]
    /\ UNCHANGED <<apikey, writer, op, cfg, te, qp, lg>>
    /\ Leaves(t)

(* if allowLogin && c.hasLoggedIn() {...}; otherwise return eresp, nil *)
DoCheck(t) ==
    /\ HasTop(t, "do", "check")
    /\ writer = 0
    /\ stack' = [stack EXCEPT ![t] =
            IF hasLoggedIn
            THEN Replace(@, [Top(t) EXCEPT !.pc = "logout", !.eresp = NilApi])
            ELSE Pop(@)]
    /\ ret' = [ret EXCEPT ![t] = IF hasLoggedIn THEN @ ELSE Pair(Top(t).eresp, NoErr)]
    /\ UNCHANGED <<apikey, writer, op, login, rs, lst, g, cfg, te, qp, lg>>
    /\ Leaves(t)

(* c.Logout(); then c.Login(ctxt) is called *)
DoLogout(t) ==
    /\ HasTop(t, "do", "logout")
    /\ Logout(t)
    /\ stack' = [stack EXCEPT ![t] =
            Append(SetPc(@, "afterLogin"), Frame("Login", "lock", TRUE, FALSE, FALSE, FALSE))]
    /\ g' = Obs(PeersSee(t, -1))
    /\ UNCHANGED <<writer, ret, op, hdr, login, rs, lst, cfg, te, qp, lg>>

(* if apiresp, err2 := c.Login(ctxt); apiresp != nil || err2 != nil { return } *)
DoAfterLogin(t) ==
    /\ HasTop(t, "do", "afterLogin")
    /\ stack' = [stack EXCEPT ![t] = IF Failed(ret[t]) THEN Pop(@) ELSE SetPc(@, "refresh")]
    /\ UNCHANGED <<apikey, writer, ret, op, login, rs, lst, g, cfg, te, qp, lg>>
    /\ Leaves(t)

(* the frame of the replay: return c.do(..., !canRetry, sensitive, allowLogin) *)
ReplayFrame(f) ==
    [Frame("do", "request", f.login, ~canRetry, f.sensitive, f.allowLogin)
        EXCEPT !.depth = IF f.depth < cfg.cycles THEN f.depth + 1 ELSE f.depth]

(* ro.Headers["Auth-Token"] = c.apikey under RLock, then the replay *)
DoReplay(t) ==
    /\ HasTop(t, "do", "refresh")
    /\ writer = 0
    /\ hdr' = [hdr EXCEPT ![t].token = apikey]
    /\ stack' = [stack EXCEPT ![t] = Replace(@, ReplayFrame(Top(t)))]
    /\ UNCHANGED <<apikey, writer, ret, op, login, rs, lst, g, cfg, te, qp, lg>>

-----------------------------------------------------------------------------
(* retry: the Retry Loop *)

(* a loop without a timeout *)
RetryGoesOnForever(f) == TRUE

(* for time.Now().Unix()-t1 < RetryTimeout *)
RetryGoesOn(f) == f.elapsed < cfg.timeout

(* return apiresp, ErrRetryTimeout: apiresp is the variable declared before  *)
(* the loop; the loop body declares its own (apiresp, err := c.do(...))      *)
RetryTimedOut(f) == Pair(f.apiresp, ErrRetryTimeout)

(* a loop that also retries an API Error 500 *)
RetryVerdictAlso500(p) ==
    IF p.api.nil /\ p.err = NoErr THEN "ok"
    ELSE IF ~p.api.nil /\ p.api.http \notin {503, 500} THEN "apierr"
    ELSE IF p.err # NoErr /\ ~ContainsRefused(p.err) THEN "err"
    ELSE "sleep"

(* the tests of the loop body on the pair the attempt returned *)
RetryVerdict(p) ==
    IF p.api.nil /\ p.err = NoErr THEN "ok"
    ELSE IF ~p.api.nil /\ p.api.http # 503 THEN "apierr"
    ELSE IF p.err # NoErr /\ ~ContainsRefused(p.err) THEN "err"
    ELSE "sleep"

(* a sleep that grows linearly *)
SleepSecondsLinear(backoff) == backoff

(* time.Sleep(time.Second * time.Duration(backoff*backoff)) *)
SleepSeconds(backoff) == backoff * backoff

(* backoff += 1 *)
NextBackoff(backoff) == backoff + 1

(* the loop test, and c.do(ctxt, method, url, ro, rs, !canRetry, sensitive, allowLogin) *)
RetryLoop(t) ==
    /\ HasTop(t, "retry", "loop")
    /\ LET f == Top(t)
           on == RetryGoesOn(f)
       IN  /\ stack' = [stack EXCEPT ![t] =
                   IF on
                   THEN Append(Replace(@, [f EXCEPT !.pc = "afterDo", !.iter = @ + 1]),
                               Frame("do", "request", f.login, ~canRetry, f.sensitive,
                                     f.allowLogin))
                   ELSE Pop(@)]
           /\ ret' = [ret EXCEPT ![t] = IF on THEN @ ELSE RetryTimedOut(f)]
           /\ g' = Obs([g EXCEPT ![t].lastApi = IF on THEN @ ELSE f.inner])
    /\ UNCHANGED <<apikey, writer, op, login, rs, lst, cfg, te, qp, lg>>
    /\ Leaves(t)

RetryAfterDo(t) ==
    /\ HasTop(t, "retry", "afterDo")
    /\ LET f == Top(t)
           p == ret[t]
           v == RetryVerdict(p)
           secs == SleepSeconds(f.backoff)
       IN  /\ stack' = [stack EXCEPT ![t] =
                   IF v = "sleep"
                   THEN Replace(Pass(@, secs),
                                [f EXCEPT !.pc = "loop", !.inner = p.api,
                                          !.backoff = NextBackoff(@),
                                          !.elapsed = Min(@ + secs, cfg.timeout)])
                   ELSE Pop(@)]
           /\ ret' = [ret EXCEPT ![t] =
                   CASE v = "ok" -> Success
                     [] v = "apierr" -> Pair(p.api, NoErr)
                     [] v = "err" -> Pair(NilApi, p.err)
                     [] OTHER -> Success]
           /\ g' = Obs([g EXCEPT ![t] = IF v = "sleep" THEN GSleep(@, secs) ELSE @])
    /\ UNCHANGED <<apikey, writer, op, login, rs, lst, cfg, te, qp, lg>>
    /\ Leaves(t)

-----------------------------------------------------------------------------
(* Login *)

(* a Login that always sends its request *)
LoginSkipsNever(key) == FALSE

(* if c.apikey != "" { return nil, nil } *)
LoginSkips(key) == key # 0

(* c.m.Lock(); if c.apikey != "" { return nil, nil }; login := &ApiLogin{};  *)
(* c.do(ctxt, "PUT", "login", ro, login, canRetry, isSensitive, !allowLogin) *)
LoginLock(t) ==
    /\ HasTop(t, "Login", "lock")
    /\ writer = 0
    /\ writer' = IF LoginSkips(apikey) THEN 0 ELSE t
    /\ stack' = [stack EXCEPT ![t] =
            IF LoginSkips(apikey)
            THEN Pop(@)
            ELSE Append(SetPc(@, "afterDo"),
                        Frame("do", "request", TRUE, canRetry, isSensitive, ~allowLogin))]
    /\ ret' = [ret EXCEPT ![t] = IF LoginSkips(apikey) THEN Success ELSE @]
    /\ login' = [login EXCEPT ![t] = IF LoginSkips(apikey) THEN @ ELSE [Key |-> 0]]
    /\ g' = Obs(IF LoginSkips(apikey)
                THEN [PeersSee(t, apikey) EXCEPT ![t].found = apikey, ![t].left = apikey,
                                                 ![t].lret = LoginReturned(Success)]
                ELSE [g EXCEPT ![t].found = apikey])
    /\ UNCHANGED <<apikey, op, rs, lst, cfg, te, qp, lg>>
    /\ Leaves(t)

(* the token Login leaves: cleared on permission denied, else login.Key *)
LoginToken(p, key) ==
    IF (~p.api.nil /\ p.api.http = PermissionDenied) \/ p.err = badStatus(PermissionDenied)
    THEN 0
    ELSE key

(* c.apikey = ...; return apiresp, err; the deferred c.m.Unlock() *)
LoginAfterDo(t) ==
    /\ HasTop(t, "Login", "afterDo")
    /\ writer = t
    /\ apikey' = LoginToken(ret[t], login[t].Key)
    /\ writer' = 0
    /\ stack' = [stack EXCEPT ![t] = Pop(@)]
    /\ login' = [login EXCEPT ![t] = [Key |-> 0]]
    /\ g' = Obs([PeersSee(t, apikey') EXCEPT ![t].left = apikey',
                                             ![t].lret = LoginReturned(ret[t])])
    /\ UNCHANGED <<ret, op, rs, lst, cfg, te, qp, lg>>
    /\ Leaves(t)

-----------------------------------------------------------------------------
(* GetList: the list paginator.  ro is the caller's, and not nil. *)

(* the query parameters a caller passes *)
ParamInputs ==
    {NilParams, Params(MapPut(EmptyMap, "filter", <<"a">>)),
     Params(MapPut(EmptyMap, "limit", <<"1">>)), Params(MapPut(EmptyMap, "offset", <<"1">>))}

(* query parameters with several keys: an empty map, filter and sort, the    *)
(* keys of ListRangeParams and a key of the caller's own, an offset and a    *)
(* limit of "0"                                                              *)
RichParamInputs ==
    {NilParams, Params(EmptyMap),
     Params(MapPut(MapPut(EmptyMap, "filter", <<"a">>), "sort", <<"s">>)),
     Params(MapPut(MapPut(MapPut(EmptyMap, "since", <<"1">>), "to", <<"9">>),
                   "tenant", <<"x">>)),
     Params(MapPut(MapPut(EmptyMap, "offset", <<"0">>), "from", <<"f">>)),
     Params(MapPut(MapPut(EmptyMap, "limit", <<"0">>), "filter", <<"a">>))}

(* the query parameters the callers of a scenario pass *)
ParamsOf(name) == IF name = "rich" THEN RichParamInputs ELSE ParamInputs

(* the lists a server holds: N items served in pages of P *)
Lists(name) ==
    {[N |-> n, P |-> q] : n \in 0..MaxItems, q \in 1..MaxPage}
        \cup (IF name = "small and 120 by 50" THEN {[N |-> 120, P |-> 50]} ELSE {})

(* rs := &ApiListOuter{}; apiresp, err := c.doWithAuth(ctxt, "GET", url, ro, rs) *)
CallGetList(t) ==
    /\ \E ps \in ParamsOf(cfg.params), sl \in Lists(cfg.lists) :
          Begin(t, "GetList",
                <<Frame("GetList", "afterFirst", FALSE, FALSE, FALSE, FALSE),
                  Frame("doWithAuth", "start", FALSE, FALSE, FALSE, FALSE)>>,
                [NoList EXCEPT !.asked = ps, !.params = ps, !.N = sl.N, !.P = sl.P, !.fetches = 1])
    /\ UNCHANGED <<apikey, writer, login, cfg, te, qp, lg>>

(* a test that looks at the limit only *)
ExplicitWindowLimitOnly(ps) == ListParamsFromMap(ps.m).Limit # 0

(* if lp.Limit != 0 || lp.Offset != 0 { return rs, apiresp, err } *)
ExplicitWindow(ps) ==
    ListParamsFromMap(ps.m).Limit # 0 \/ ListParamsFromMap(ps.m).Offset # 0

(* for ldata := len(data); ldata != tcnt; {...}: tcnt is the variable        *)
(* declared before the loop; the body declares its own                       *)
LoopTest(l) == l.ldata # l.tcnt

(* an update that keeps an offset the parameters already have *)
WithOffsetKeepingFirst(ps, offset) ==
    IF ps.nil
    THEN Params(ListParamsToMap([Filter |-> <<>>, Limit |-> 0, Sort |-> <<>>,
                                 Offset |-> offset]))
    ELSE IF "offset" \in DOMAIN ps.m THEN ps
    ELSE Params(MapPut(ps.m, "offset", FormatInt(offset)))

(* an update that builds the parameters anew, with the offset alone *)
WithOffsetAlone(ps, offset) ==
    Params(ListParamsToMap([Filter |-> <<>>, Limit |-> 0, Sort |-> <<>>,
                            Offset |-> offset]))

(* the offset parameter of the next page *)
WithOffset(ps, offset) ==
    IF ps.nil
    THEN Params(ListParamsToMap([Filter |-> <<>>, Limit |-> 0, Sort |-> <<>>,
                                 Offset |-> offset]))
    ELSE Params(MapPut(ps.m, "offset", FormatInt(offset)))

(* one turn of the loop, up to the call of doWithAuth or the break:          *)
(* tcnt := total_count; offset += len(rs.Data); if offset >= tcnt { break }  *)
Turn(l, holder) ==
    LET off == l.offset + Len(holder.Data)
        more == LoopTest(l) /\ off < holder.tcnt
    IN  [more |-> more,
         l |-> IF LoopTest(l)
               THEN [l EXCEPT !.offset = off,
                              !.params = IF more THEN WithOffset(@, off) ELSE @,
                              !.fetches = IF more /\ @ < MaxFetches THEN @ + 1 ELSE @]
               ELSE l,
         holder |-> [holder EXCEPT !.Data = IF more THEN <<>> ELSE l.data]]

(* a failure that leaves the holder as the failing page left it *)
DataOnFailureEnvelope(l, holder) == holder.Data

(* what the failing continuation page leaves in rs.Data: rs.Data = data *)
DataOnFailure(l, holder) == l.data

(* GetList returns: its locals data, offset, ldata and the pair of the first *)
(* call are gone                                                             *)
Returned(l) == [l EXCEPT !.data = <<>>, !.offset = 0, !.ldata = 0, !.first = Success]

PageFrames(s, more) ==
    IF more
    THEN Append(SetPc(s, "afterPage"),
                Frame("doWithAuth", "start", FALSE, FALSE, FALSE, FALSE))
    ELSE Pop(s)

(* after the first call: the test on apiresp and the metadata, the test on   *)
(* limit and offset, data := rs.Data, and the first turn of the loop         *)
GetListAfterFirst(t) ==
    /\ HasTop(t, "GetList", "afterFirst")
    /\ LET p == ret[t]
           paginate == p.api.nil /\ rs[t].meta /\ ~ExplicitWindow(lst[t].params)
           l0 == [lst[t] EXCEPT !.data = rs[t].Data, !.offset = 0,
                                !.ldata = Len(rs[t].Data), !.first = p]
           turn == Turn(l0, rs[t])
       IN  /\ lst' = [lst EXCEPT ![t] =
                   IF paginate /\ turn.more THEN turn.l
                   ELSE IF paginate THEN Returned(turn.l)
                   ELSE @]
           /\ rs' = [rs EXCEPT ![t] = IF paginate THEN turn.holder ELSE @]
           /\ stack' = [stack EXCEPT ![t] = PageFrames(@, paginate /\ turn.more)]
           /\ ret' = [ret EXCEPT ![t] = IF paginate /\ turn.more THEN Success ELSE p]
    /\ UNCHANGED <<apikey, writer, op, login, g, cfg, te, qp, lg>>
    /\ Leaves(t)

(* after a continuation page: on failure rs.Data = data and return; else     *)
(* data = append(data, rs.Data...) and the next turn                         *)
GetListAfterPage(t) ==
    /\ HasTop(t, "GetList", "afterPage")
    /\ LET p == ret[t]
           l1 == [lst[t] EXCEPT !.data = @ \o rs[t].Data]
           turn == Turn(l1, rs[t])
       IN  /\ lst' = [lst EXCEPT ![t] =
                   IF Failed(p) THEN Returned([@ EXCEPT !.contFailed = TRUE])
                   ELSE IF turn.more THEN turn.l
                   ELSE Returned(turn.l)]
           /\ rs' = [rs EXCEPT ![t] =
                   IF Failed(p) THEN [@ EXCEPT !.Data = DataOnFailure(lst[t], rs[t])]
                   ELSE turn.holder]
           /\ stack' = [stack EXCEPT ![t] = PageFrames(@, ~Failed(p) /\ turn.more)]
           /\ ret' = [ret EXCEPT ![t] =
                   IF Failed(p) THEN p
                   ELSE IF turn.more THEN Success ELSE lst[t].first]
    /\ UNCHANGED <<apikey, writer, op, login, g, cfg, te, qp, lg>>
    /\ Leaves(t)

-----------------------------------------------------------------------------
(* do: what one attempt writes to the log.  A text is the sequence of its    *)
(* words.                                                                    *)

Stars == <<"********">>
Muted == <<"<muted>">>

(* ro.JSON: nil; a struct or a map (an object with a field); a JSON text     *)
(* passed as a string or as a []byte; a value json.Marshal has no encoding   *)
(* for (a channel, a NaN)                                                    *)
FieldNames == {"name", "secret", "target_user_name"}
FieldValues == {"v1", "v2"}
NilJSON == [kind |-> "nil", name |-> "", value |-> ""]
JSONInputs ==
    {NilJSON} \cup [kind : {"object", "string", "bytes", "unsupported"},
                    name : FieldNames, value : FieldValues]

(* base64 of a word *)
Base64(w) ==
    CASE w = "name" -> "bmFtZQ"
      [] w = "secret" -> "c2VjcmV0"
      [] w = "target_user_name" -> "dGFyZ2V0X3VzZXJfbmFtZQ"
      [] w = "v1" -> "djE"
      [] w = "v2" -> "djI"
      [] OTHER -> "e30"

(* json.Marshal(ro.JSON): null for nil, the object's text, a string quoted   *)
(* with its quotes escaped, a []byte as a base64 string; (nil, err) for a    *)
(* value without encoding                                                    *)
Marshal(j) ==
    CASE j.kind = "nil" -> [err |-> FALSE, text |-> <<"null">>]
      [] j.kind = "object" ->
            [err |-> FALSE, text |-> <<"{", j.name, ":", j.value, "}">>]
      [] j.kind = "string" ->
            [err |-> FALSE, text |-> <<"\"", "{", j.name, ":", j.value, "}", "\"">>]
      [] j.kind = "bytes" ->
            [err |-> FALSE, text |-> <<"\"", Base64(j.name), Base64(j.value), "\"">>]
      [] OTHER -> [err |-> TRUE, text |-> <<>>]

(* strings.Contains(string(sdata), word) *)
Contains(text, word) == \E i \in DOMAIN text : text[i] = word

(* sdata after the three tests of do and the test of "quiet" *)
Redacted(text, sensitive, quiet) ==
    LET s1 == IF Contains(text, "target_user_name") THEN Stars ELSE text
        s2 == IF Contains(s1, "secret") THEN Stars ELSE s1
        s3 == IF sensitive THEN Stars ELSE s2
    IN  IF quiet THEN Muted ELSE s3

(* a log record with a payload, and no record *)
Record(payload) == [written |-> TRUE, payload |-> payload]
NoRecord == [written |-> FALSE, payload |-> <<>>]

(* Errorf("Couldn't stringify data, %s", ro.JSON) when json.Marshal fails;   *)
(* the record of ro.BeforeRequest, installed at debug level and called once  *)
(* the request is built; the fields of detailLog, which every record after   *)
(* the response carries                                                      *)
Logs(j, sensitive, quiet, debug) ==
    LET m == Marshal(j)
        sdata == Redacted(m.text, sensitive, quiet)
    IN  [called |-> TRUE, json |-> j, sensitive |-> sensitive, quiet |-> quiet,
         debug |-> debug,
         failure |-> IF m.err THEN Record(<<j.name, j.value>>) ELSE NoRecord,
         before |-> IF debug /\ ~m.err THEN Record(sdata) ELSE NoRecord,
         response |-> Record(sdata)]

NoAttempt ==
    [called |-> FALSE, json |-> NilJSON, sensitive |-> FALSE, quiet |-> FALSE,
     debug |-> FALSE, failure |-> NoRecord, before |-> NoRecord, response |-> NoRecord]

-----------------------------------------------------------------------------
(* The system *)

AllOps == Verbs \cup {"Login", "Logout", "GetList"}

InitState ==
    /\ apikey = 0
    /\ writer = 0
    /\ stack = [t \in Callers |-> <<>>]
    /\ ret = [t \in Callers |-> Success]
    /\ op = [t \in Callers |-> "none"]
    /\ hdr = [t \in Callers |-> NoHdr]
    /\ login = [t \in Callers |-> [Key |-> 0]]
    /\ rs = [t \in Callers |-> NoRs]
    /\ lst = [t \in Callers |-> NoList]
    /\ g = [t \in Callers |-> GInit]
    /\ te = [in |-> NoResp, out |-> Success]
    /\ qp = NoConversion
    /\ lg = NoAttempt

(* The scenarios of one caller name the failures a resource request and a   *)
(* login request may meet, the delays of a request, the value of             *)
(* RetryTimeout (a package variable: 300 unless the program that uses the    *)
(* package sets it), the session keys the server hands out, and the lists    *)
(* it holds.                                                                 *)
Scenario(ops, resource, loginR, keys, delays, timeout, pages, lists) ==
    [callers |-> {1}, ops |-> ops, resource |-> resource, loginR |-> loginR,
     keys |-> keys, delays |-> delays, timeout |-> timeout, pages |-> pages,
     lists |-> lists, observe |-> TRUE, cycles |-> MaxCycles, params |-> "plain"]

Scenarios ==
    { \* any answer to a resource request, logins that are not retried
      Scenario({"Get", "Login", "Logout"}, "any", "not retried", Keys,
               {0, ReqDelay}, RetryTimeout, "any", "small"),
      \* any answer to a login, resource requests that need no new login
      Scenario({"Get", "Login", "Logout"}, "no 401", "any", Keys,
               {0, ReqDelay}, RetryTimeout, "any", "small"),
      \* any answer to both, with a short timeout
      Scenario({"Get", "Login", "Logout"}, "any", "any", Keys,
               {0, ShortDelay}, ShortTimeout, "any", "small"),
      \* lists from a server that may serve any page, and may fail
      Scenario({"GetList"}, "refused, 500, 503", "none", {1},
               {0}, ShortTimeout, "any", "small"),
      Scenario({"GetList"}, "401, 500", "401", {1},
               {0}, ShortTimeout, "any", "small"),
      \* a server that serves every list faithfully, and the other verbs
      Scenario({"GetList", "Put", "Post", "Delete"}, "none", "none", {1},
               {0}, RetryTimeout, "faithful", "small and 120 by 50") }

Init ==
    /\ InitState
    /\ cfg \in Scenarios

Step(t) ==
    \/ CallVerb(t)
    \/ CallLogin(t)
    \/ CallLogout(t)
    \/ DoWithAuthStart(t)
    \/ DoWithAuthAfterLogin(t)
    \/ DoWithAuthHeaders(t)
    \/ DoRequest(t)
    \/ DoCheck(t)
    \/ DoLogout(t)
    \/ DoAfterLogin(t)
    \/ DoReplay(t)
    \/ RetryLoop(t)
    \/ RetryAfterDo(t)
    \/ LoginLock(t)
    \/ LoginAfterDo(t)
    \/ CallGetList(t)
    \/ GetListAfterFirst(t)
    \/ GetListAfterPage(t)

Next == \E t \in Callers : Step(t)

Spec == Init /\ [][Next]_vars

-----------------------------------------------------------------------------
(* Two callers that log in and out on one connection *)

InitLogin ==
    /\ InitState
    /\ cfg = [Scenario({"Login", "Logout"}, "none", "500, 503", Keys,
                       {0}, ShortTimeout, "any", "small")
                EXCEPT !.callers = Callers]

NextLogin ==
    \E t \in Callers :
        \/ CallLogin(t)
        \/ CallLogout(t)
        \/ LoginLock(t)
        \/ LoginAfterDo(t)
        \/ DoRequest(t)
        \/ RetryLoop(t)
        \/ RetryAfterDo(t)

SpecLogin == InitLogin /\ [][NextLogin]_vars

-----------------------------------------------------------------------------
(* Callers that share one connection for authenticated requests: the server  *)
(* accepts every login (the credentials are valid) and answers a resource    *)
(* request with success or with 401 (the session has expired)                *)

InitShared ==
    /\ InitState
    /\ cfg = [Scenario({"Get", "Logout"}, "401", "none", {1, 2},
                       {0}, ShortTimeout, "any", "small")
                EXCEPT !.callers = Callers, !.observe = FALSE, !.cycles = 1]

NextShared ==
    \E t \in Callers :
        \/ CallVerb(t)
        \/ CallLogout(t)
        \/ DoWithAuthStart(t)
        \/ DoWithAuthAfterLogin(t)
        \/ DoWithAuthHeaders(t)
        \/ DoRequest(t)
        \/ DoCheck(t)
        \/ DoLogout(t)
        \/ DoAfterLogin(t)
        \/ DoReplay(t)
        \/ LoginLock(t)
        \/ LoginAfterDo(t)

SpecShared == InitShared /\ [][NextShared]_vars

-----------------------------------------------------------------------------
(* One caller against a server that accepts the login and answers 503 to     *)
(* every resource request, at once or after ReqDelay seconds.  The caller's  *)
(* goroutine keeps running: every request returns and every sleep ends.      *)

InitDown ==
    /\ InitState
    /\ cfg = Scenario(Verbs, "only 503", "none", {1},
                      {0, ReqDelay}, RetryTimeout, "any", "small")

StepDown(t) ==
    \/ CallVerb(t)
    \/ DoWithAuthStart(t)
    \/ DoWithAuthAfterLogin(t)
    \/ DoWithAuthHeaders(t)
    \/ DoRequest(t)
    \/ RetryLoop(t)
    \/ RetryAfterDo(t)
    \/ LoginLock(t)
    \/ LoginAfterDo(t)

NextDown == \E t \in Callers : StepDown(t)

SpecDown ==
    InitDown /\ [][NextDown]_vars /\ \A t \in Callers : WF_vars(StepDown(t))

-----------------------------------------------------------------------------
(* One caller that lists with query parameters of several keys, against a    *)
(* server that accepts the login and may serve any page                      *)

InitPages ==
    /\ InitState
    /\ cfg = [Scenario({"GetList"}, "none", "none", {1},
                       {0}, ShortTimeout, "any", "small")
                EXCEPT !.params = "rich"]

StepPages(t) ==
    \/ CallGetList(t)
    \/ DoWithAuthStart(t)
    \/ DoWithAuthAfterLogin(t)
    \/ DoWithAuthHeaders(t)
    \/ DoRequest(t)
    \/ LoginLock(t)
    \/ LoginAfterDo(t)
    \/ GetListAfterFirst(t)
    \/ GetListAfterPage(t)

NextPages == \E t \in Callers : StepPages(t)

SpecPages == InitPages /\ [][NextPages]_vars

-----------------------------------------------------------------------------
(* The error classifier alone, on any transport error and response *)

RawReset == "read tcp: connection reset by peer"
RawRefusedAt == "dial tcp 10.0.0.1:7717: connect: connection refused"

ClassifyStatuses == {200, 201, 204, 301, 400, 401, 403, 404, 500, 502, 503}

ClassifyInputs ==
    {Resp(e, 0, 0, 0, FALSE, <<>>, -1) : e \in {RawRefused, RawRefusedAt, RawDeadline, RawReset}}
    \cup {Resp(NoErr, st, h, 0, FALSE, <<>>, -1) : st \in ClassifyStatuses,
                                                  h \in {0} \cup ClassifyStatuses}

InitClassify ==
    /\ InitState
    /\ cfg = Scenario({}, "none", "none", {1}, {0}, RetryTimeout, "any", "small")

Classify ==
    /\ \E r \in ClassifyInputs : te' = [in |-> r, out |-> translateErrors(r)]
    /\ UNCHANGED <<apikey, writer, stack, ret, op, hdr, login, rs, lst, g, cfg, qp, lg>>

NextClassify == Classify

SpecClassify == InitClassify /\ [][NextClassify]_vars

-----------------------------------------------------------------------------
(* The conversions between ListParams, ListRangeParams and the query map,    *)
(* alone, each applied once to any value                                     *)

Numbers == (0 - MaxNumber)..MaxNumber
Texts == {<<>>, <<"a">>, <<"1", "0">>}
RangeTexts == {<<>>, <<"t">>}

ListParamsInputs ==
    [Filter : Texts, Sort : Texts, Offset : Numbers, Limit : Numbers]

ListRangeParamsInputs ==
    [Filter : RangeTexts, Sort : RangeTexts, Offset : Numbers, Limit : Numbers,
     Since : RangeTexts, From : RangeTexts, To : RangeTexts]

InitParams ==
    /\ InitState
    /\ cfg = Scenario({}, "none", "none", {1}, {0}, RetryTimeout, "any", "small")

(* ListParamsFromMap(lp.ToMap()), and ListParamsFromMap of the same map with *)
(* the keys it lacks present and empty                                       *)
ConvertList ==
    /\ qp = NoConversion
    /\ \E lp \in ListParamsInputs :
          qp' = [kind |-> "list", lp |-> lp, m |-> ListParamsToMap(lp),
                 back |-> ListParamsFromMap(ListParamsToMap(lp)),
                 backE |-> ListParamsFromMap(WithEmptyKeys(ListParamsToMap(lp), ListKeys))]
    /\ UNCHANGED <<apikey, writer, stack, ret, op, hdr, login, rs, lst, g, cfg, te, lg>>

ConvertRange ==
    /\ qp = NoConversion
    /\ \E lp \in ListRangeParamsInputs :
          qp' = [kind |-> "range", lp |-> lp, m |-> ListRangeParamsToMap(lp),
                 back |-> ListRangeParamsFromMap(ListRangeParamsToMap(lp)),
                 backE |-> ListRangeParamsFromMap(
                              WithEmptyKeys(ListRangeParamsToMap(lp), RangeKeys))]
    /\ UNCHANGED <<apikey, writer, stack, ret, op, hdr, login, rs, lst, g, cfg, te, lg>>

NextParams == ConvertList \/ ConvertRange

SpecParams == InitParams /\ [][NextParams]_vars

-----------------------------------------------------------------------------
(* The log records of one attempt of do, alone, on any payload *)

InitLogs ==
    /\ InitState
    /\ cfg = Scenario({}, "none", "none", {1}, {0}, RetryTimeout, "any", "small")

DoLogs ==
    /\ \E j \in JSONInputs, sensitive, quiet, debug \in BOOLEAN :
          lg' = Logs(j, sensitive, quiet, debug)
    /\ UNCHANGED <<apikey, writer, stack, ret, op, hdr, login, rs, lst, g, cfg, te, qp>>

NextLogs == DoLogs

SpecLogs == InitLogs /\ [][NextLogs]_vars

-----------------------------------------------------------------------------
(* The claims *)

ResourceOps == Verbs \cup {"GetList"}

(* C1: a 401 on an authenticated call triggers exactly one Logout + Login +  *)
(* replay cycle: the replay of a request is never itself replayed, so no     *)
(* attempt is the replay of a replay.                                        *)
C1_SingleReauthCycle ==
    \A t \in Callers : \A i \in DOMAIN stack[t] : stack[t][i].depth <= 1

(* C2, as stated: while the attempts are answered 503, the wait after the    *)
(* k-th failed attempt is k squared seconds, 1 second after the first 503.   *)
C2_WaitAfterKthIsKSquared ==
    \A t \in Callers :
        g[t].natt >= 2 => g[t].lastGap = (g[t].natt - 1) * (g[t].natt - 1)

(* C2, amended: while the attempts of a call are answered 503, the second    *)
(* attempt follows the first without a wait and the wait after the k-th      *)
(* failed attempt, k >= 2, is (k-1) squared seconds (0, 1, 4, 9, ...); and   *)
(* a call all of whose attempts were answered 503 ends with the timeout.     *)
C2_Backoff ==
    \A t \in Callers :
        /\ g[t].natt >= 2 => g[t].lastGap = (g[t].natt - 2) * (g[t].natt - 2)
        /\ (Done(t) /\ op[t] \in ResourceOps /\ g[t].all503 /\ g[t].natt >= 1)
                => ret[t].err = ErrRetryTimeout

C2_Witness ==
    \E t \in Callers :
        /\ Done(t) /\ g[t].all503 /\ g[t].natt >= 4 /\ g[t].lastGap = 4
        /\ ret[t].err = ErrRetryTimeout

(* C3: an attempt of the Retry Loop that fails with connection refused is    *)
(* followed by the sleep and the next turn of the loop; the loop does not    *)
(* return the connection error.                                              *)
C3_RefusedIsRetried ==
    [][\A t \in Callers :
          (HasTop(t, "retry", "afterDo") /\ ret[t].err = badStatus(ConnectionError)
                /\ stack'[t] # stack[t])
            => /\ Len(stack'[t]) = Len(stack[t])
               /\ stack'[t][Len(stack[t])].pc = "loop"
               /\ stack'[t][Len(stack[t])].backoff = Top(t).backoff + 1]_vars

(* C4: the Retry Loop that times out returns, with ErrRetryTimeout, the API  *)
(* Error of the last attempt it made.                                        *)
C4_TimeoutCarriesLastApiError ==
    \A t \in Callers :
        (ret[t].err = ErrRetryTimeout /\ ~g[t].lastApi.nil) => ret[t].api = g[t].lastApi

(* C5, as stated: no request and no sleep follows an attempt answered with a *)
(* status other than 503 and 401, or failed by a transport error that is not *)
(* connection refused.                                                       *)
C5_NonTransientIsTerminal ==
    \A t \in Callers : g[t].followedO = NoneSeen

(* the pair a call returns for a terminal response *)
OutcomeOf(r) ==
    IF r.terr # NoErr THEN Pair(NilApi, r.terr)
    ELSE Pair(ApiErr(IF r.http = 0 THEN r.status ELSE r.http), NoErr)

(* C5, amended: an attempt answered with a status other than 503 and 401     *)
(* whose API Error does not carry Http 503, or failed by a transport error   *)
(* that is not connection refused, is the last thing the call does, and the  *)
(* call returns that outcome.                                                *)
C5_Terminal ==
    \A t \in Callers :
        /\ g[t].followedA = NoneSeen
        /\ (Done(t) /\ op[t] \in ResourceOps /\ g[t].last # NoneSeen /\ TerminalA(g[t].last))
                => ret[t] = OutcomeOf(g[t].last)

C5_Witness ==
    \E t \in Callers :
        /\ Done(t) /\ g[t].last # NoneSeen /\ TerminalA(g[t].last)
        /\ g[t].natt >= 3 /\ g[t].lastGap = 1
        /\ ret[t] = OutcomeOf(g[t].last)

(* C6, as stated: of two concurrent Logins, the one that takes the lock      *)
(* second (the Login of another caller returned while it waited) sends no    *)
(* login request and returns success.                                        *)
C6_SecondLoginSendsNothing ==
    \A t \in Callers :
        (Done(t) /\ op[t] = "Login" /\ g[t].peer >= 0)
            => g[t].nlogin = 0 /\ ret[t] = Success

(* the callers that hold the lock in Login, their request under way *)
InLogin == {t \in Callers : \E i \in DOMAIN stack[t] :
                stack[t][i].fn = "Login" /\ stack[t][i].pc = "afterDo"}

(* C6, amended: Logins serialize on the exclusive lock (at most one is       *)
(* between taking and releasing it, and it is the writer); the Login that    *)
(* takes the lock after the Login of another caller finds the token that one *)
(* left; a Login that finds the token set sends no request, returns success  *)
(* and leaves the token as it found it; one that finds it empty (as after a  *)
(* Login that failed) sends its own login request.                           *)
C6_LoginsSerialize ==
    /\ Cardinality(InLogin) <= 1
    /\ \A t \in InLogin : writer = t
    /\ \A t \in Callers :
        (Done(t) /\ op[t] = "Login") =>
            /\ g[t].peer >= 0 => g[t].found = g[t].peer
            /\ IF g[t].found # 0
               THEN g[t].nlogin = 0 /\ ret[t] = Success /\ g[t].left = g[t].found
               ELSE g[t].nlogin >= 1

C6_Witness ==
    \E t, u \in Callers :
        /\ t # u
        /\ Done(u) /\ op[u] = "Login" /\ g[u].nlogin >= 1 /\ g[u].left \in Keys
        /\ Done(t) /\ op[t] = "Login" /\ g[t].peer = g[u].left /\ g[t].found = g[t].peer
        /\ g[t].nlogin = 0 /\ ret[t] = Success /\ apikey = g[u].left

(* the query parameters the caller passed have a non-zero number under k *)
AskedNonZero(t, k) ==
    /\ k \in DOMAIN lst[t].asked.m
    /\ lst[t].asked.m[k] # <<>>
    /\ ParseInt(lst[t].asked.m[k]).val # 0

AskedWindow(t) == AskedNonZero(t, "limit") \/ AskedNonZero(t, "offset")

(* the page fetches a list of n items takes in pages of q *)
PagesOf(n, q) == IF n = 0 THEN 1 ELSE (n + q - 1) \div q

(* C7: GetList without limit and offset, against a server that serves the    *)
(* pages asked for with total_count = N: every continuation request carries  *)
(* the number of items accumulated so far as its offset, and the call        *)
(* returns the N items once each, in server order, after ceil(N / P) page    *)
(* fetches (three for N = 120 in pages of 50).                               *)
C7_Pagination ==
    \A t \in Callers :
        (op[t] = "GetList" /\ lst[t].faithful /\ ~AskedWindow(t)) =>
            /\ (\E i \in DOMAIN stack[t] :
                    stack[t][i].fn = "GetList" /\ stack[t][i].pc = "afterPage")
                 => /\ ReqOffset(t) = Len(lst[t].data)
                    /\ Len(lst[t].data) < lst[t].N
            /\ (Done(t) /\ ~Failed(ret[t]))
                 => /\ rs[t].Data = ServerList(lst[t].N)
                    /\ lst[t].fetches = PagesOf(lst[t].N, lst[t].P)
                    /\ (lst[t].N = 120 /\ lst[t].P = 50) => lst[t].fetches = 3

C7_Witness ==
    \E t \in Callers :
        /\ Done(t) /\ op[t] = "GetList" /\ lst[t].faithful
        /\ ~AskedWindow(t) /\ ~Failed(ret[t])
        /\ lst[t].N = 120 /\ lst[t].P = 50 /\ lst[t].fetches = 3
        /\ Len(rs[t].Data) = 120 /\ rs[t].Data = ServerList(120)

(* C8: GetList with a non-zero limit or offset makes one page fetch, leaves  *)
(* the parameters as they were and returns the items of that page as the     *)
(* server gave them, whatever total_count the page reports.                  *)
C8_SinglePage ==
    \A t \in Callers :
        (op[t] = "GetList" /\ AskedWindow(t)) =>
            /\ lst[t].fetches = 1
            /\ lst[t].params = lst[t].asked
            /\ Done(t) => rs[t].Data = lst[t].got

C8_Witness ==
    \E t \in Callers :
        /\ Done(t) /\ op[t] = "GetList" /\ AskedWindow(t)
        /\ ~Failed(ret[t]) /\ rs[t].meta /\ rs[t].tcnt > Len(rs[t].Data)
        /\ Len(rs[t].Data) >= 1 /\ rs[t].Data = lst[t].got /\ lst[t].fetches = 1

(* C9, as stated: when a continuation page fails, the result set is the one  *)
(* the failing page left (no items), the accumulation being discarded.       *)
C9_AccumulationDiscarded ==
    \A t \in Callers :
        (Done(t) /\ op[t] = "GetList" /\ lst[t].contFailed) => rs[t].Data = <<>>

(* C9, amended: when a continuation page fails, GetList returns that failure *)
(* and the result set holds the items of the pages fetched before it, in     *)
(* order.                                                                    *)
C9_AccumulationReturned ==
    \A t \in Callers :
        (Done(t) /\ op[t] = "GetList" /\ lst[t].contFailed) =>
            /\ Failed(ret[t])
            /\ rs[t].Data = lst[t].got
            /\ rs[t].Data # <<>>

C9_Witness ==
    \E t \in Callers :
        /\ Done(t) /\ op[t] = "GetList" /\ lst[t].contFailed /\ Failed(ret[t])
        /\ lst[t].fetches >= 3 /\ Len(rs[t].Data) >= 2 /\ rs[t].Data = lst[t].got

(* the transport errors whose message says the connection was refused *)
RefusedErrors == {RawRefused, RawRefusedAt}

(* C10: translateErrors maps a refused connection to (nil, ConnectionError), *)
(* any other transport error to (nil, that error), a non-success status to   *)
(* an API Error whose Http is the body's, or the status code when the body   *)
(* gave none (never zero), with the error of the status code (400, 401, 503; *)
(* none otherwise), and a success status to (nil, nil).                      *)
C10_Classifier ==
    te.in # NoResp =>
        LET r == te.in
            o == te.out
        IN  /\ (r.terr \in RefusedErrors) => o = Pair(NilApi, "ConnectionError")
            /\ (r.terr # NoErr /\ r.terr \notin RefusedErrors) => o = Pair(NilApi, r.terr)
            /\ (r.terr = NoErr /\ (r.status < 200 \/ r.status > 299)) =>
                    /\ ~o.api.nil
                    /\ o.api.http # 0
                    /\ o.api.http = (IF r.http # 0 THEN r.http ELSE r.status)
                    /\ o.err = (CASE r.status = 400 -> "InvalidRequest"
                                  [] r.status = 401 -> "PermissionDenied"
                                  [] r.status = 503 -> "Retry503"
                                  [] OTHER -> NoErr)
            /\ (r.terr = NoErr /\ r.status >= 200 /\ r.status <= 299) => o = Success

C10_Witness ==
    /\ te.in.terr = NoErr /\ te.in.status = 503 /\ te.in.http = 0
    /\ te.out = Pair(ApiErr(503), "Retry503")

(* C11: Login started with an empty token: answered 401, it leaves the token *)
(* empty and returns the API Error; when it succeeds the token is the key    *)
(* the server returned; whenever it returns an API Error or an error the     *)
(* token is empty afterwards.                                                *)
C11_LoginPostState ==
    \A t \in Callers :
        (Done(t) /\ op[t] = "Login" /\ g[t].found = 0 /\ g[t].nlogin >= 1) =>
            /\ g[t].lstatus = PermissionDenied => (g[t].left = 0 /\ ~ret[t].api.nil)
            /\ ~Failed(ret[t]) => (g[t].left = g[t].lkey /\ g[t].lstatus = 200)
            /\ Failed(ret[t]) => g[t].left = 0

(* what holds of C11: the same, but for a Login that returns the error of a  *)
(* body that did not decode                                                  *)
C11_ButDecodeError ==
    \A t \in Callers :
        (Done(t) /\ op[t] = "Login" /\ g[t].found = 0 /\ g[t].nlogin >= 1) =>
            /\ g[t].lstatus = PermissionDenied => (g[t].left = 0 /\ ~ret[t].api.nil)
            /\ ~Failed(ret[t]) => (g[t].left = g[t].lkey /\ g[t].lstatus = 200)
            /\ (Failed(ret[t]) /\ ret[t].err # ErrDecode) => g[t].left = 0

(* the call of doWithAuth is about to send its first resource request *)
AboutToSendFirst(t) ==
    /\ HasTop(t, "do", "request") /\ ~Top(t).login
    /\ op[t] \in ResourceOps /\ ~g[t].sent

(* C12: doWithAuth logs in lazily and in order: started with the token       *)
(* empty, it sends its first resource request only after a Login that        *)
(* returned success, and when that Login fails it returns exactly that       *)
(* failure without sending a resource request; started with the token set,   *)
(* it sends the resource request without any Login before it.                *)
C12_LazyLogin ==
    \A t \in Callers :
        /\ AboutToSendFirst(t) =>
                IF g[t].dwaTok = 0
                THEN g[t].lret = LoginReturned(Success) /\ g[t].nlogin >= 1
                ELSE g[t].dwaTok = 1 /\ g[t].lret = NoLogin
        /\ (Done(t) /\ op[t] \in ResourceOps /\ ~g[t].sent) =>
                /\ g[t].dwaTok = 0
                /\ g[t].lret = LoginReturned(ret[t])
                /\ ret[t] # Success

C12_Witness ==
    \E t \in Callers :
        /\ Done(t) /\ op[t] = "Get" /\ ~g[t].sent /\ g[t].dwaTok = 0
        /\ g[t].nlogin >= 2 /\ ret[t] = Pair(NilApi, ErrRetryTimeout)
        /\ g[t].lret = LoginReturned(ret[t])

(* a resource request of caller t is about to be sent *)
AboutToSend(t) == HasTop(t, "do", "request") /\ ~Top(t).login

(* C13: every resource request of an authenticated verb (first attempt,      *)
(* attempt of the Retry Loop, replay) carries the tenant and a session token *)
(* that is not empty and is the key of the most recent successful login (the *)
(* connection's token, while it has one).                                    *)
C13_RequestCarriesToken ==
    \A t \in Callers :
        AboutToSend(t) =>
            /\ hdr[t].tenant
            /\ hdr[t].token # 0
            /\ apikey # 0 => hdr[t].token = apikey

(* the frames caller t has above frame i of its stack *)
Above(t, i) == {stack[t][j] : j \in (i + 1)..Len(stack[t])}

(* C14: while a caller is inside Login holding the exclusive lock, the       *)
(* request Login issues (and its attempts in a Retry Loop) never enters the  *)
(* re-authentication path and never calls Login or Logout again, whatever    *)
(* the login request returns; the caller is the holder of the lock until     *)
(* Login returns, so the release at its return is always possible.           *)
C14_LoginNeverReenters ==
    \A t \in Callers :
        \A i \in DOMAIN stack[t] :
            (stack[t][i].fn = "Login" /\ stack[t][i].pc = "afterDo") =>
                /\ writer = t
                /\ \A f \in Above(t, i) :
                        /\ f.fn \in {"do", "retry"}
                        /\ f.login /\ ~f.allowLogin
                        /\ f.pc \notin {"check", "logout", "afterLogin", "refresh"}

(* a Login whose request was answered 401 has returned the failure and       *)
(* released the lock, the token empty                                        *)
C14_Witness ==
    \E t \in Callers :
        /\ Done(t) /\ g[t].lret = LoginReturned(ret[t])
        /\ g[t].nlogin >= 1 /\ g[t].lstatus = PermissionDenied
        /\ ~ret[t].api.nil /\ ret[t].api.http = PermissionDenied
        /\ writer = 0 /\ apikey = 0

(* the step in which the Login of caller t stores the token and returns *)
LoginReturns(t) ==
    HasTop(t, "Login", "afterDo") /\ writer = t /\ stack'[t] = Pop(stack[t])

(* the step in which caller t executes Logout: called directly, or by do     *)
(* after a 401                                                               *)
LogoutRuns(t) ==
    \/ HasTop(t, "do", "logout") /\ stack'[t] # stack[t]
    \/ ~Busy(t) /\ op'[t] = "Logout" /\ stack'[t] = stack[t]

(* the step in which an authenticated call of caller t tests hasLoggedIn *)
AuthCallTests(t) == HasTop(t, "doWithAuth", "start") /\ stack'[t] # stack[t]

(* the token's steps, where a Login may set the token if what it returns is  *)
(* in maySet                                                                 *)
TokenSteps(maySet) ==
    /\ (apikey = 0 /\ apikey' # 0) =>
            \E t \in Callers : LoginReturns(t) /\ ret[t] \in maySet
    /\ (apikey # 0 /\ apikey' = 0) => \E t \in Callers : LogoutRuns(t)
    /\ (apikey # 0 /\ apikey' # 0) => apikey' = apikey
    /\ \A t \in Callers :
            (AuthCallTests(t) /\ apikey = 0) =>
                (Len(stack'[t]) = Len(stack[t]) + 1
                    /\ stack'[t][Len(stack'[t])].fn = "Login")

(* what a Login that succeeded returns *)
Succeeded == {Success}

(* what a Login returns that succeeded, or could not decode the whole body *)
SucceededOrUndecoded == {Success, Pair(NilApi, ErrDecode)}

(* C15: the token goes from empty to set only in the return of a successful  *)
(* Login, from set to empty only in a Logout (called directly or by the      *)
(* re-authentication after a 401), a set token is never replaced by another  *)
(* one, and an authenticated call that finds the token empty calls Login.    *)
C15_TokenLifecycle == [][TokenSteps(Succeeded)]_vars

(* what holds of C15: the same lifecycle, except that the token is also set  *)
(* by a Login that returns the error of a body it could decode only in part  *)
C15_ButDecodeError == [][TokenSteps(SucceededOrUndecoded)]_vars

(* the field of lp that key k of the map carries, and its zero value *)
FieldOf(lp, k) ==
    CASE k = "filter" -> lp.Filter
      [] k = "sort" -> lp.Sort
      [] k = "limit" -> lp.Limit
      [] k = "offset" -> lp.Offset
      [] k = "since" -> lp.Since
      [] k = "from" -> lp.From
      [] k = "to" -> lp.To

IsZero(k, v) == IF k \in {"limit", "offset"} THEN v = 0 ELSE v = <<>>

KeysOf(kind) == IF kind = "list" THEN ListKeys ELSE RangeKeys

(* C16: for every ListParams (and ListRangeParams) value lp, FromMap of      *)
(* lp.ToMap() is lp; ToMap has a key exactly for the non-empty filter, sort  *)
(* (since, from, to) and the non-zero limit, offset, and never an empty      *)
(* value; FromMap gives the zero value to the fields whose key is absent,    *)
(* and to those whose key is present and empty.                              *)
C16_RoundTrip ==
    qp.kind # "none" =>
        /\ qp.back = qp.lp
        /\ qp.backE = qp.lp
        /\ DOMAIN qp.m = {k \in KeysOf(qp.kind) : ~IsZero(k, FieldOf(qp.lp, k))}
        /\ \A k \in DOMAIN qp.m : qp.m[k] # <<>>
        /\ \A k \in KeysOf(qp.kind) \ DOMAIN qp.m : IsZero(k, FieldOf(qp.back, k))

(* a value with a negative offset and a limit of two digits, and a range     *)
(* value with since and to and no from, have made the round trip             *)
C16_Witness ==
    \/ /\ qp.kind = "list" /\ qp.lp.Offset < 0 /\ qp.lp.Limit >= 10
        /\ qp.lp.Filter = <<>> /\ qp.lp.Sort # <<>>
        /\ DOMAIN qp.m = {"limit", "sort", "offset"} /\ qp.back = qp.lp
    \/ /\ qp.kind = "range" /\ qp.lp.Since # <<>> /\ qp.lp.To # <<>>
        /\ qp.lp.From = <<>> /\ qp.lp.Limit = 0 /\ qp.lp.Offset = 8
        /\ qp.lp.Filter = <<>> /\ qp.lp.Sort = <<>>
        /\ DOMAIN qp.m = {"since", "to", "offset"} /\ qp.back = qp.lp

(* the payload of the attempt holds a credential field name *)
HasCredential(j) == j.kind # "nil" /\ j.name \in {"target_user_name", "secret"}

(* the marker of a redacted payload *)
Marker(quiet) == IF quiet THEN Muted ELSE Stars

(* C17: for every attempt whose payload contains a credential field name or  *)
(* whose call is marked sensitive, the request payload in the before-request *)
(* record and in the response record is the fixed marker, at every verbosity *)
(* and with or without quiet logging, whatever the payload holds.            *)
C17_Redaction ==
    (lg.called /\ (HasCredential(lg.json) \/ lg.sensitive)) =>
        /\ lg.response.payload = Marker(lg.quiet)
        /\ lg.before.written => lg.before.payload = Marker(lg.quiet)

(* what holds of C17: when json.Marshal renders the payload as text in which *)
(* the field name can be read (nil, a struct or a map, a string), the        *)
(* payload of the two records is the marker and no other record holds the    *)
(* payload                                                                   *)
C17_ButReadableText ==
    (lg.called /\ (HasCredential(lg.json) \/ lg.sensitive)
        /\ lg.json.kind \in {"nil", "object", "string"}) =>
        /\ lg.response.payload = Marker(lg.quiet)
        /\ lg.before.written => lg.before.payload = Marker(lg.quiet)
        /\ ~lg.failure.written

(* the Retry Loops caller t is in *)
RetryLoops(t) == {i \in DOMAIN stack[t] : stack[t][i].fn = "retry"}

(* C18: an attempt made by a Retry Loop, and the replay after a              *)
(* re-authentication, run with retry disabled, and a caller is in at most    *)
(* one Retry Loop at a time, also when a 401 inside the loop triggers a      *)
(* re-login whose login request is answered 503 or connection refused.      *)
C18_NoNestedRetry ==
    \A t \in Callers :
        /\ Cardinality(RetryLoops(t)) <= 1
        /\ \A i \in RetryLoops(t) :
                (i < Len(stack[t]) /\ stack[t][i + 1].fn = "do") => ~stack[t][i + 1].retry
        /\ \A i \in DOMAIN stack[t] :
                (stack[t][i].fn = "do" /\ stack[t][i].depth >= 1) => ~stack[t][i].retry

(* what holds of C18: the attempts of a Retry Loop and the replays run with  *)
(* retry disabled, and a second Retry Loop inside a Retry Loop is one that   *)
(* the login request of a re-login started                                   *)
C18_ButReLogin ==
    \A t \in Callers :
        /\ \A i \in RetryLoops(t) :
                (i < Len(stack[t]) /\ stack[t][i + 1].fn = "do") => ~stack[t][i + 1].retry
        /\ \A i \in DOMAIN stack[t] :
                (stack[t][i].fn = "do" /\ stack[t][i].depth >= 1) => ~stack[t][i].retry
        /\ \A i, j \in RetryLoops(t) :
                i < j => (stack[t][j].login /\ ~stack[t][i].login
                            /\ \E k \in (i + 1)..(j - 1) :
                                  stack[t][k].fn = "Login" /\ stack[t][k].pc = "afterDo")
        /\ Cardinality(RetryLoops(t)) <= 2

(* the step in which do, its request answered 401 and re-authentication      *)
(* permitted, finds the token empty and returns the PermissionDenied error   *)
DeniedAtCheck(t) == HasTop(t, "do", "check") /\ Len(stack'[t]) < Len(stack[t])

(* C19: with callers sharing a connection whose credentials are valid, a     *)
(* caller whose request is answered 401 logs out, logs in and replays before *)
(* it returns: the PermissionDenied error reaches a caller only from its     *)
(* replay, never from a first request whose re-authentication was skipped    *)
(* because another caller had cleared the token.                             *)
C19_DeniedOnlyAfterReplay ==
    [][\A t \in Callers : DeniedAtCheck(t) => Top(t).depth >= 1]_vars

(* the step in which GetList, a continuation page decoded, fetches another *)
FetchesAgain(t) ==
    /\ HasTop(t, "GetList", "afterPage")
    /\ Len(stack'[t]) = Len(stack[t]) + 1

(* C20: GetList pagination terminates whatever the pages hold: every         *)
(* continuation fetch uses an offset strictly greater than the one before,   *)
(* so the offset reaches total_count after finitely many fetches.            *)
C20_OffsetGrows ==
    [][\A t \in Callers : FetchesAgain(t) => lst'[t].offset > lst[t].offset]_vars

(* what holds of C20: the offset of a continuation fetch is never smaller    *)
(* than the one before, and it is the same only after a page without items   *)
C20_ButEmptyPage ==
    [][\A t \in Callers :
        FetchesAgain(t) =>
            /\ lst'[t].offset >= lst[t].offset
            /\ lst'[t].offset = lst[t].offset => rs[t].Data = <<>>]_vars

RECURSIVE SumSquares(_)
SumSquares(k) == IF k <= 0 THEN 0 ELSE k * k + SumSquares(k - 1)

(* the step in which the Retry Loop of caller t starts an attempt, and the   *)
(* step in which it sleeps after one                                         *)
StartsAttempt(t) ==
    HasTop(t, "retry", "loop") /\ Len(stack'[t]) = Len(stack[t]) + 1

SleepsAfterAttempt(t) ==
    /\ HasTop(t, "retry", "afterDo")
    /\ Len(stack'[t]) = Len(stack[t])
    /\ stack'[t][Len(stack'[t])].pc = "loop"

OtherKeys(m) == DOMAIN m \ {"offset"}

(* C22: on every page fetch of GetList the query parameters other than       *)
(* offset are the ones the caller passed, with the values the caller gave    *)
(* them: offset is the only key pagination adds or modifies.                 *)
C22_OnlyOffsetChanges ==
    \A t \in Callers :
        op[t] = "GetList" =>
            /\ OtherKeys(lst[t].params.m) = OtherKeys(lst[t].asked.m)
            /\ \A k \in OtherKeys(lst[t].asked.m) : lst[t].params.m[k] = lst[t].asked.m[k]
            /\ lst[t].fetches = 1 => lst[t].params = lst[t].asked

(* a continuation page is about to be fetched with the offset added to the   *)
(* three keys the caller passed                                              *)
C22_Witness ==
    \E t \in Callers :
        /\ op[t] = "GetList" /\ AboutToSend(t) /\ lst[t].fetches >= 2
        /\ DOMAIN lst[t].asked.m = {"since", "to", "tenant"}
        /\ DOMAIN lst[t].params.m = {"since", "to", "tenant", "offset"}
        /\ lst[t].params.m["offset"] # <<"0">>

====
